---- MODULE Spec2Model ----
(***************************************************************************)
(* Destinex backend: the city cache (services/db_service.py) and the       *)
(* search / clear-cache request handlers (app.py).                         *)
(*                                                                         *)
(* Python values are modelled as follows.                                  *)
(*   - a str is a sequence of one-character strings;                       *)
(*   - an optional value is a sequence of length <= 1: <<>> is None and    *)
(*     <<x>> is the value x;                                               *)
(*   - a dict is a record (its keys are the record's DOMAIN);              *)
(*   - a datetime is a number of hours since the epoch of the run, a       *)
(*     timedelta a number of hours.                                        *)
(***************************************************************************)
EXTENDS Integers, Sequences, FiniteSets, TLC

VARIABLES
    store,      \* the documents of the city_cache collection (a set of records)
    now,        \* datetime.utcnow(), in hours
    lastWrite,  \* history: per city key, the last upsert the store applied, if not deleted since
    lastOp,     \* history: the last db_service call made directly, with its result
    req         \* per request thread: the position and locals of the handler it runs

vars == <<store, now, lastWrite, lastOp, req>>

(***************************************************************************)
(* Bounds of the model.                                                    *)
(***************************************************************************)
MaxClock == 48
MaxClockSearch == 24

\* The request threads of the server (two requests can be in flight at once).
Threads == {1, 2}

(***************************************************************************)
(* Optional values.                                                        *)
(***************************************************************************)
None == <<>>
Some(x) == <<x>>

(***************************************************************************)
(* Strings: str.lower() and str.strip() over the alphabet of the model.    *)
(***************************************************************************)
UpperCase == <<"A", "B", "C", "D", "E", "F", "G", "H", "I", "J", "K", "L", "M", "N", "O", "P", "Q", "R", "S", "T", "U", "V", "W", "X", "Y", "Z">>
LowerCase == <<"a", "b", "c", "d", "e", "f", "g", "h", "i", "j", "k", "l", "m", "n", "o", "p", "q", "r", "s", "t", "u", "v", "w", "x", "y", "z">>

LowerOf ==
    [c \in {UpperCase[i] : i \in 1..Len(UpperCase)} |->
        LowerCase[CHOOSE i \in 1..Len(UpperCase) : UpperCase[i] = c]]

lower_char(c) == IF c \in DOMAIN LowerOf THEN LowerOf[c] ELSE c

lower(s) == [i \in 1..Len(s) |-> lower_char(s[i])]

RECURSIVE lstrip(_)
lstrip(s) == IF s # <<>> /\ Head(s) = " " THEN lstrip(Tail(s)) ELSE s

RECURSIVE rstrip(_)
rstrip(s) == IF s # <<>> /\ s[Len(s)] = " " THEN rstrip(SubSeq(s, 1, Len(s) - 1)) ELSE s

strip(s) == rstrip(lstrip(s))

\* city_name.lower().strip()
normalize_city(city_name) == strip(lower(city_name))

\* The city names of the model: "P", " p" and "R ", and the blank ones " " and "".
CityNames == { <<"P">>, <<" ", "p">>, <<"R", " ">> }
BlankNames == { <<" ">>, <<>> }

CityKeys == { normalize_city(c) : c \in CityNames \cup BlankNames }

(***************************************************************************)
(* The city_cache collection (pymongo) as db_service uses it.              *)
(* A document is [city_name, data, cached_at]; cached_at is optional       *)
(* because documents that db_service did not write may lack it.            *)
(***************************************************************************)
TTL_HOURS == 24

\* Outcomes of one store call: it is applied and returns; it raises before
\* the server applies it; it raises after the server applied it.
StoreOutcomes == {"ok", "raise_unapplied", "raise_applied"}

Applied(outcome) == outcome \in {"ok", "raise_applied"}
Raised(outcome) == outcome \in {"raise_unapplied", "raise_applied"}

\* {'city_name': key}
Matching(st, key) == {doc \in st : doc.city_name = key}

\* cache_collection.find_one({'city_name': key})
find_one(st, key) ==
    IF Matching(st, key) = {} THEN None
    ELSE Some(CHOOSE doc \in Matching(st, key) : TRUE)

\* Mutant: the entry is still served when it is exactly 24 hours old.
NotExpiredInclusive(age) == age <= 24

\* age < timedelta(hours=24)
NotExpired(age) == age < TTL_HOURS

\* Mutant: an entry without cached_at is reported as a miss.
get_cached_data_strict(city_name, st, t, raises) ==
    IF raises \/ Matching(st, normalize_city(city_name)) = {} THEN None
    ELSE LET doc == CHOOSE d \in Matching(st, normalize_city(city_name)) : TRUE
         IN  IF doc.cached_at # None /\ t - doc.cached_at[1] < 24
             THEN Some(doc.data)
             ELSE None

\* DatabaseService.get_cached_data: the value returned. raises: find_one raised.
get_cached_data(city_name, st, t, raises) ==
    IF raises THEN None
    ELSE LET normalized_city == normalize_city(city_name)
             cached == find_one(st, normalized_city)
         IN  IF cached # None
             THEN LET cached_time == cached[1].cached_at
                  IN  IF cached_time # None
                      THEN IF NotExpired(t - cached_time[1])
                           THEN Some(cached[1].data)
                           ELSE None
                      ELSE Some(cached[1].data)
             ELSE None

\* Mutant: a read deletes the entry it finds expired.
StoreAfterReadEvicting(city_name, st, t) ==
    {doc \in st : ~(/\ doc.city_name = normalize_city(city_name)
                    /\ doc.cached_at # None
                    /\ t - doc.cached_at[1] >= 24)}

\* DatabaseService.get_cached_data: the collection after the call.
StoreAfterRead(city_name, st, t) == st

\* The cache_entry dict cache_data builds.
cache_entry(city_name, data, t) ==
    [city_name |-> normalize_city(city_name), data |-> data, cached_at |-> Some(t)]

\* Mutant: the collection has no unique index.
NoUniqueIndex(st, doc) == TRUE

\* create_index('city_name', unique=True): may doc be inserted into st?
UniqueIndexAllows(st, doc) == Matching(st, doc.city_name) = {}

\* update_one(filter, {'$set': entry}, upsert=True), the branch where a
\* document matches: the three fields of one matching document are set.
UpdateMatched(st, entry) ==
    LET old == CHOOSE doc \in Matching(st, entry.city_name) : TRUE
    IN  (st \ {old}) \cup {entry}

\* Mutant: the write inserts a new document without looking for a match.
insert_one(st, entry) == st \cup {entry}

\* update_one(..., upsert=True) as one atomic call (no concurrent writer).
update_one_upsert(st, entry) ==
    IF Matching(st, entry.city_name) # {}
    THEN UpdateMatched(st, entry)
    ELSE IF UniqueIndexAllows(st, entry) THEN st \cup {entry} ELSE st

\* DatabaseService.cache_data: the collection after the call.
cache_data(city_name, data, st, t, outcome) ==
    IF Applied(outcome) THEN update_one_upsert(st, cache_entry(city_name, data, t))
    ELSE st

\* if city_name: (a Python str is true when it is not empty, None is false)
Truthy(opt_str) == opt_str # None /\ opt_str[1] # <<>>

\* Mutant: delete_many({}) on both branches.
clear_cache_everything(city_name, st, outcome) ==
    IF Applied(outcome) THEN {} ELSE st

\* DatabaseService.clear_cache: the collection after the call.
\* city_name is optional (None: the default argument).
clear_cache(city_name, st, outcome) ==
    IF ~Applied(outcome) THEN st
    ELSE IF Truthy(city_name)
         THEN LET normalized_city == normalize_city(city_name[1])
              IN  IF Matching(st, normalized_city) = {} THEN st
                  ELSE st \ {CHOOSE doc \in Matching(st, normalized_city) : TRUE}
         ELSE {}

(***************************************************************************)
(* ai_service.py: price estimation, procedural rating, classification,     *)
(* insights and ranking. A rating is a number of tenths (45 is 4.5); the   *)
(* price symbol is a str of one to three rupee signs, each written "Rs".   *)
(***************************************************************************)
\* keyword in text
contains(text, keyword) ==
    \E i \in 0..(Len(text) - Len(keyword)) : SubSeq(text, i + 1, i + Len(keyword)) = keyword

\* any(keyword in text for keyword in keywords)
any_keyword(text, keywords) == \E k \in 1..Len(keywords) : contains(text, keywords[k])

LUXURY_KEYWORDS ==
    << <<"l", "u", "x", "u", "r", "y">>,
      <<"p", "r", "e", "m", "i", "u", "m">>,
      <<"5", "-", "s", "t", "a", "r">>,
      <<"f", "i", "v", "e", " ", "s", "t", "a", "r">>,
      <<"r", "e", "s", "o", "r", "t">>,
      <<"p", "a", "l", "a", "c", "e">>,
      <<"h", "e", "r", "i", "t", "a", "g", "e">>,
      <<"b", "o", "u", "t", "i", "q", "u", "e">>,
      <<"f", "i", "n", "e", " ", "d", "i", "n", "i", "n", "g">>,
      <<"r", "o", "o", "f", "t", "o", "p">>,
      <<"s", "p", "a">>,
      <<"g", "o", "l", "f">>,
      <<"m", "a", "r", "r", "i", "o", "t", "t">>,
      <<"t", "a", "j">>,
      <<"h", "y", "a", "t", "t">>,
      <<"h", "i", "l", "t", "o", "n">>,
      <<"o", "b", "e", "r", "o", "i">>,
      <<"i", "t", "c">>,
      <<"l", "e", "e", "l", "a">>,
      <<"e", "x", "p", "e", "n", "s", "i", "v", "e">>,
      <<"h", "i", "g", "h", "-", "e", "n", "d">>,
      <<"e", "x", "c", "l", "u", "s", "i", "v", "e">>,
      <<"p", "r", "i", "v", "a", "t", "e">>,
      <<"s", "u", "i", "t", "e">> >>

BUDGET_KEYWORDS ==
    << <<"b", "u", "d", "g", "e", "t">>,
      <<"c", "h", "e", "a", "p">>,
      <<"e", "c", "o", "n", "o", "m", "y">>,
      <<"h", "o", "s", "t", "e", "l">>,
      <<"b", "a", "c", "k", "p", "a", "c", "k", "e", "r">>,
      <<"d", "h", "a", "b", "a">>,
      <<"s", "t", "r", "e", "e", "t", " ", "f", "o", "o", "d">>,
      <<"c", "a", "f", "e">>,
      <<"i", "n", "e", "x", "p", "e", "n", "s", "i", "v", "e">>,
      <<"a", "f", "f", "o", "r", "d", "a", "b", "l", "e">>,
      <<"l", "o", "w", "-", "c", "o", "s", "t">>,
      <<"z", "o", "s", "t", "e", "l">>,
      <<"f", "r", "e", "e">>,
      <<"c", "o", "m", "p", "l", "i", "m", "e", "n", "t", "a", "r", "y">>,
      <<"n", "o", " ", "c", "h", "a", "r", "g", "e">> >>

MODERATE_KEYWORDS ==
    << <<"m", "i", "d", "-", "r", "a", "n", "g", "e">>,
      <<"m", "o", "d", "e", "r", "a", "t", "e">>,
      <<"3", "-", "s", "t", "a", "r">>,
      <<"t", "h", "r", "e", "e", " ", "s", "t", "a", "r">>,
      <<"c", "o", "m", "f", "o", "r", "t", "a", "b", "l", "e">>,
      <<"d", "e", "c", "e", "n", "t">>,
      <<"r", "e", "a", "s", "o", "n", "a", "b", "l", "e">>,
      <<"s", "t", "a", "n", "d", "a", "r", "d">>,
      <<"r", "e", "g", "u", "l", "a", "r">>,
      <<"c", "a", "s", "u", "a", "l">> >>

PRICE_HIGH == <<"Rs", "Rs", "Rs">>
PRICE_MID == <<"Rs", "Rs">>
PRICE_LOW == <<"Rs">>

\* Mutant: the budget keywords are tested before the luxury keywords.
estimate_price_range_budget_first(name, kinds, rating) ==
    LET text == lower(name \o <<" ">> \o kinds)
    IN  IF any_keyword(text, BUDGET_KEYWORDS) THEN PRICE_LOW
        ELSE IF any_keyword(text, LUXURY_KEYWORDS) THEN PRICE_HIGH
        ELSE IF any_keyword(text, MODERATE_KEYWORDS) THEN PRICE_MID
        ELSE IF rating >= 45 THEN PRICE_HIGH
        ELSE IF rating >= 40 THEN PRICE_MID
        ELSE PRICE_LOW

\* AIService.estimate_price_range
estimate_price_range(name, kinds, rating) ==
    LET text == lower(name \o <<" ">> \o kinds)
    IN  IF any_keyword(text, LUXURY_KEYWORDS) THEN PRICE_HIGH
        ELSE IF any_keyword(text, BUDGET_KEYWORDS) THEN PRICE_LOW
        ELSE IF any_keyword(text, MODERATE_KEYWORDS) THEN PRICE_MID
        ELSE IF rating >= 45 THEN PRICE_HIGH
        ELSE IF rating >= 40 THEN PRICE_MID
        ELSE PRICE_LOW

\* The place names of the model.
PlaceNames ==
    { <<"F", "o", "r", "t">>,
      <<"T", "a", "j", " ", "M", "a", "h", "a", "l", " ", "P", "a", "l", "a", "c", "e", " ", "H", "o", "t", "e", "l">>,
      <<"B", "u", "d", "g", "e", "t", " ", "I", "n", "n">>,
      <<"C", "a", "f", "e", " ", "B", "i", "s", "t", "r", "o">>,
      <<"S", "p", "a">>,
      <<"D", "h", "a", "b", "a">> }

\* hashlib.md5(name.encode()).hexdigest(), tabulated for the names of the model.
md5_hexdigest(name) ==
    IF name = <<"F", "o", "r", "t">>
    THEN <<"d", "6", "1", "1", "b", "f", "b", "2", "0", "3", "4", "5", "5", "1", "8", "5", "f", "e", "8", "2", "5", "4", "b", "2", "7", "e", "a", "a", "7", "3", "a", "a">>
    ELSE     IF name = <<"T", "a", "j", " ", "M", "a", "h", "a", "l", " ", "P", "a", "l", "a", "c", "e", " ", "H", "o", "t", "e", "l">>
    THEN <<"2", "f", "8", "1", "b", "a", "0", "2", "7", "d", "8", "a", "7", "5", "f", "6", "f", "2", "b", "7", "2", "8", "d", "8", "5", "2", "2", "3", "5", "3", "d", "2">>
    ELSE     IF name = <<"B", "u", "d", "g", "e", "t", " ", "I", "n", "n">>
    THEN <<"e", "9", "5", "5", "3", "e", "f", "f", "7", "2", "3", "c", "8", "d", "f", "5", "a", "8", "7", "2", "2", "7", "9", "8", "2", "e", "6", "4", "b", "c", "d", "a">>
    ELSE     IF name = <<"C", "a", "f", "e", " ", "B", "i", "s", "t", "r", "o">>
    THEN <<"1", "3", "7", "2", "e", "2", "2", "7", "0", "0", "d", "4", "4", "c", "7", "4", "3", "6", "c", "1", "9", "f", "0", "f", "9", "2", "0", "9", "2", "b", "2", "8">>
    ELSE     IF name = <<"S", "p", "a">>
    THEN <<"7", "2", "e", "3", "d", "0", "d", "7", "7", "b", "b", "a", "8", "d", "c", "5", "3", "4", "7", "2", "1", "a", "4", "9", "0", "6", "1", "0", "4", "e", "e", "f">>
    ELSE     IF name = <<"D", "h", "a", "b", "a">>
    THEN <<"1", "1", "3", "b", "c", "4", "8", "b", "2", "b", "a", "4", "4", "5", "4", "e", "e", "7", "a", "7", "c", "1", "8", "8", "c", "d", "1", "0", "d", "e", "d", "0">>
    ELSE <<"0">>

HexDigits == <<"0", "1", "2", "3", "4", "5", "6", "7", "8", "9", "a", "b", "c", "d", "e", "f">>

hex_value(d) == (CHOOSE i \in 1..16 : HexDigits[i] = d) - 1

\* int(hexdigest, 16) % m, digit by digit (the 128-bit integer itself is not built).
RECURSIVE int16_mod(_, _, _)
int16_mod(hexdigest, m, acc) ==
    IF hexdigest = <<>> THEN acc
    ELSE int16_mod(Tail(hexdigest), m, (acc * 16 + hex_value(Head(hexdigest))) % m)

\* Mutant: the hash is reduced modulo 15.
generate_rating_mod15(name) == 35 + int16_mod(md5_hexdigest(name), 15, 0)

\* AIService.generate_rating, in tenths: variance is (hash_int % 16) tenths,
\* and round(3.5 + variance, 1) is that number of tenths exactly.
generate_rating(name) == 35 + int16_mod(md5_hexdigest(name), 16, 0)

\* The keyword rules of the three classifiers, in the order of their if/elif chain.
ATTRACTION_RULES ==
    << [label |-> "historic",
        keywords |-> << <<"h", "i", "s", "t", "o", "r", "i", "c">>, <<"c", "u", "l", "t", "u", "r", "a", "l">>, <<"a", "r", "c", "h", "i", "t", "e", "c", "t", "u", "r", "e">>, <<"m", "o", "n", "u", "m", "e", "n", "t">>, <<"m", "u", "s", "e", "u", "m">>, <<"f", "o", "r", "t">>, <<"p", "a", "l", "a", "c", "e">> >>],
       [label |-> "nature",
        keywords |-> << <<"n", "a", "t", "u", "r", "a", "l">>, <<"p", "a", "r", "k">>, <<"g", "a", "r", "d", "e", "n">>, <<"b", "e", "a", "c", "h">>, <<"m", "o", "u", "n", "t", "a", "i", "n">>, <<"l", "a", "k", "e">>, <<"n", "a", "t", "u", "r", "e">> >>],
       [label |-> "religious",
        keywords |-> << <<"r", "e", "l", "i", "g", "i", "o", "n">>, <<"t", "e", "m", "p", "l", "e">>, <<"c", "h", "u", "r", "c", "h">>, <<"m", "o", "s", "q", "u", "e">>, <<"g", "u", "r", "d", "w", "a", "r", "a">>, <<"s", "h", "r", "i", "n", "e">>, <<"s", "p", "i", "r", "i", "t", "u", "a", "l">> >>],
       [label |-> "entertainment",
        keywords |-> << <<"a", "m", "u", "s", "e", "m", "e", "n", "t">>, <<"e", "n", "t", "e", "r", "t", "a", "i", "n", "m", "e", "n", "t">>, <<"z", "o", "o">>, <<"a", "q", "u", "a", "r", "i", "u", "m">>, <<"t", "h", "e", "a", "t", "e", "r">>, <<"c", "i", "n", "e", "m", "a">> >>] >>

HOTEL_RULES ==
    << [label |-> "luxury",
        keywords |-> << <<"l", "u", "x", "u", "r", "y">>, <<"p", "r", "e", "m", "i", "u", "m">>, <<"5", "-", "s", "t", "a", "r">>, <<"r", "e", "s", "o", "r", "t">>, <<"p", "a", "l", "a", "c", "e">>, <<"s", "p", "a">> >>],
       [label |-> "boutique",
        keywords |-> << <<"b", "o", "u", "t", "i", "q", "u", "e">>, <<"h", "e", "r", "i", "t", "a", "g", "e">>, <<"c", "h", "a", "r", "m", "i", "n", "g">>, <<"u", "n", "i", "q", "u", "e">> >>],
       [label |-> "budget",
        keywords |-> << <<"h", "o", "s", "t", "e", "l">>, <<"b", "u", "d", "g", "e", "t">>, <<"e", "c", "o", "n", "o", "m", "y">>, <<"c", "h", "e", "a", "p">> >>] >>

RESTAURANT_RULES ==
    << [label |-> "fine_dining",
        keywords |-> << <<"f", "i", "n", "e", " ", "d", "i", "n", "i", "n", "g">>, <<"g", "o", "u", "r", "m", "e", "t">>, <<"l", "u", "x", "u", "r", "y">>, <<"p", "r", "e", "m", "i", "u", "m">>, <<"5", "-", "s", "t", "a", "r">> >>],
       [label |-> "street_food",
        keywords |-> << <<"s", "t", "r", "e", "e", "t", " ", "f", "o", "o", "d">>, <<"f", "a", "s", "t", " ", "f", "o", "o", "d">>, <<"f", "o", "o", "d", " ", "c", "o", "u", "r", "t">>, <<"s", "t", "a", "l", "l">> >>],
       [label |-> "casual",
        keywords |-> << <<"c", "a", "f", "e">>, <<"c", "a", "s", "u", "a", "l">>, <<"b", "i", "s", "t", "r", "o">>, <<"d", "i", "n", "e", "r">> >>] >>

\* if any(...): return label / elif any(...): return label / ... / else: return 'default'
RECURSIVE first_rule(_, _)
first_rule(text, rules) ==
    IF rules = <<>> THEN "default"
    ELSE IF any_keyword(text, Head(rules).keywords) THEN Head(rules).label
    ELSE first_rule(text, Tail(rules))

\* AIService.categorize_attraction_type
categorize_attraction_type(kinds) == first_rule(lower(kinds), ATTRACTION_RULES)

\* Mutant: the boutique rule is tested before the luxury rule.
categorize_hotel_type_boutique_first(name, kinds) ==
    first_rule(lower(name \o <<" ">> \o kinds),
               <<HOTEL_RULES[2], HOTEL_RULES[1], HOTEL_RULES[3]>>)

\* AIService.categorize_hotel_type
categorize_hotel_type(name, kinds) == first_rule(lower(name \o <<" ">> \o kinds), HOTEL_RULES)

\* AIService.categorize_restaurant_type
categorize_restaurant_type(name, kinds) ==
    first_rule(lower(name \o <<" ">> \o kinds), RESTAURANT_RULES)

ATTRACTION_INSIGHTS ==
    [
      historic |-> << "Rich in history and culture. Best visited with a guide to fully appreciate the stories.",
                   "A testament to the region's glorious past. Don't miss the architectural details.",
                   "Step back in time and experience the heritage of this magnificent site." >>,
      nature |-> << "Perfect escape from city life. Visit early morning for the best experience.",
                   "Breathtaking natural beauty. Ideal for photography enthusiasts.",
                   "A peaceful retreat surrounded by nature's finest offerings." >>,
      religious |-> << "Spiritual ambiance that brings peace and tranquility. Dress modestly.",
                   "Important pilgrimage site with deep cultural significance.",
                   "Experience the divine atmosphere and architectural grandeur." >>,
      entertainment |-> << "Great place for fun and entertainment with family and friends.",
                   "Vibrant atmosphere with plenty of activities for all ages.",
                   "Perfect spot to unwind and enjoy leisure time." >>,
      default |-> << "Popular destination loved by locals and tourists alike.",
                   "Worth a visit when exploring the city. Check reviews for best times.",
                   "A must-see attraction that captures the essence of the city." >> ]

HOTEL_INSIGHTS ==
    [
      luxury |-> << "World-class amenities and impeccable service for a memorable stay.",
                   "Indulge in luxury with stunning views and premium facilities.",
                   "Perfect blend of comfort and elegance for discerning travelers." >>,
      boutique |-> << "Charming property with unique character and personalized service.",
                   "Intimate setting with attention to every detail.",
                   "Experience local hospitality in a cozy, well-appointed space." >>,
      budget |-> << "Great value for money with all essential amenities.",
                   "Clean and comfortable accommodation without breaking the bank.",
                   "Perfect for budget travelers and backpackers." >>,
      default |-> << "Convenient location with good amenities for a comfortable stay.",
                   "Well-rated property offering reliable hospitality.",
                   "Good choice for both business and leisure travelers." >> ]

RESTAURANT_INSIGHTS ==
    [
      fine_dining |-> << "Exquisite culinary experience with impeccable presentation and service.",
                   "Perfect for special occasions with an elegant ambiance.",
                   "Mouthwatering dishes crafted by skilled chefs using premium ingredients." >>,
      casual |-> << "Relaxed atmosphere with delicious food at reasonable prices.",
                   "Great spot for a casual meal with friends and family.",
                   "Consistently good food with friendly service." >>,
      street_food |-> << "Authentic local flavors that shouldn't be missed.",
                   "Popular among locals - a true taste of the city's culinary culture.",
                   "Delicious and affordable - perfect for food adventurers." >>,
      default |-> << "Well-loved eatery serving tasty dishes in a welcoming setting.",
                   "Good food, good vibes - a reliable choice for any meal.",
                   "Recommended by locals for its quality and consistency." >> ]

GENERIC_INSIGHT == "A great place to visit and explore."

\* dict.get(key, default)
dict_get(d, key, default_value) == IF key \in DOMAIN d THEN d[key] ELSE default_value

\* random.seed(hash(name) % 10000) ... random.choice(insights): the element
\* at the index the seeded generator yields. choice is that index (str hashes
\* differ from one process to the next, and the generator is global).
ChoiceIndexes == {0, 1, 2}

random_choice(insights, choice) == insights[choice + 1]

\* Mutant: a rating of exactly 4.5 gets the lower suffix.
rating_suffix_strict(rating) ==
    IF rating > 45 THEN <<" Highly rated by visitors!">>
    ELSE IF rating >= 40 THEN <<" Well-loved by travelers.">>
    ELSE <<>>

\* insight += suffix: an insight is the sequence of the parts concatenated.
rating_suffix(rating) ==
    IF rating >= 45 THEN <<" Highly rated by visitors!">>
    ELSE IF rating >= 40 THEN <<" Well-loved by travelers.">>
    ELSE <<>>

\* AIService.generate_insight
generate_insight(name, category, kinds, rating, choice) ==
    IF category = "attractions"
    THEN <<random_choice(dict_get(ATTRACTION_INSIGHTS, categorize_attraction_type(kinds),
                                  ATTRACTION_INSIGHTS["default"]), choice)>>
         \o rating_suffix(rating)
    ELSE IF category = "hotels"
    THEN <<random_choice(dict_get(HOTEL_INSIGHTS, categorize_hotel_type(name, kinds),
                                  HOTEL_INSIGHTS["default"]), choice)>>
         \o rating_suffix(rating)
    ELSE IF category = "restaurants"
    THEN <<random_choice(dict_get(RESTAURANT_INSIGHTS, categorize_restaurant_type(name, kinds),
                                  RESTAURANT_INSIGHTS["default"]), choice)>>
         \o rating_suffix(rating)
    ELSE <<GENERIC_INSIGHT>>

\* x.get('review_count', 0)
review_count(place) ==
    IF "review_count" \in DOMAIN place /\ place.review_count # None
    THEN place.review_count[1] ELSE 0

\* x.get('rating', 0)
rating_key(place) == IF "rating" \in DOMAIN place THEN place.rating ELSE 0

\* (rating, review_count) of a is less than that of b, as Python compares tuples.
key_less(a, b) ==
    \/ rating_key(a) < rating_key(b)
    \/ rating_key(a) = rating_key(b) /\ review_count(a) < review_count(b)

\* Mutant: a place goes before the places whose key equals its own.
RECURSIVE insert_descending_before_equal(_, _)
insert_descending_before_equal(place, sorted) ==
    IF sorted = <<>> THEN <<place>>
    ELSE IF ~key_less(place, Head(sorted)) THEN <<place>> \o sorted
    ELSE <<Head(sorted)>> \o insert_descending_before_equal(place, Tail(sorted))

\* One place put into a list sorted in descending order, after the places
\* whose key is not less than its own.
RECURSIVE insert_descending(_, _)
insert_descending(place, sorted) ==
    IF sorted = <<>> THEN <<place>>
    ELSE IF key_less(Head(sorted), place) THEN <<place>> \o sorted
    ELSE <<Head(sorted)>> \o insert_descending(place, Tail(sorted))

\* sorted(places, key=..., reverse=True): a stable sort, descending.
RECURSIVE sorted_reverse(_, _)
sorted_reverse(places, acc) ==
    IF places = <<>> THEN acc
    ELSE sorted_reverse(Tail(places), insert_descending(Head(places), acc))

\* AIService.rank_places
rank_places(places) == sorted_reverse(places, <<>>)

(***************************************************************************)
(* Payloads: the response_data dict of a search.                           *)
(***************************************************************************)
response_data(attractions, hotels, restaurants) ==
    [attractions |-> attractions, hotels |-> hotels, restaurants |-> restaurants]

EmptyPayload == response_data(<<>>, <<>>, <<>>)

\* The data arguments of the direct cache_data calls.
Payloads ==
    { EmptyPayload,
      response_data(<<[name |-> <<"F", "o", "r", "t">>, category |-> "attraction"]>>, <<>>, <<>>) }

(***************************************************************************)
(* History.                                                                *)
(***************************************************************************)
NoWrites == [k \in CityKeys |-> None]

\* lastWrite after the store applied (or not) an upsert of entry.
WriteRecorded(lw, entry, applied) ==
    IF applied
    THEN [lw EXCEPT ![entry.city_name] = Some([data |-> entry.data, at |-> entry.cached_at[1]])]
    ELSE lw

\* lastWrite after the store applied (or not) a delete for city_name.
ClearRecorded(lw, city_name, applied) ==
    IF ~applied THEN lw
    ELSE IF Truthy(city_name)
         THEN [lw EXCEPT ![normalize_city(city_name[1])] = None]
         ELSE NoWrites

\* What the collection held for a key, as a read at time t would see it.
KeyState(st, key, t) ==
    IF Matching(st, key) = {} THEN "absent"
    ELSE IF \E doc \in Matching(st, key) :
                doc.cached_at # None /\ t - doc.cached_at[1] >= 24
         THEN "stale"
         ELSE "fresh"

NoOp ==
    [op |-> "none", city |-> None, data |-> None, outcome |-> "ok", result |-> None,
     before |-> "absent"]

\* A request thread that runs no handler.
IdleRequest ==
    [pc |-> "idle", param |-> None, read |-> None, geo |-> None, entry |-> None,
     status |-> 0, body |-> None, calls |-> {}, raised |-> {}]

(***************************************************************************)
(* Direct calls of the db_service singleton, one caller at a time.         *)
(***************************************************************************)
InitCache ==
    /\ store = {}
    /\ now = 0
    /\ lastWrite = NoWrites
    /\ lastOp = NoOp
    /\ req = [t \in Threads |-> IdleRequest]

CallGetCachedData ==
    \E city_name \in CityNames, raises \in BOOLEAN :
        /\ store' = StoreAfterRead(city_name, store, now)
        /\ lastOp' = [op |-> "get_cached_data", city |-> Some(city_name), data |-> None,
                      outcome |-> IF raises THEN "raise_unapplied" ELSE "ok",
                      result |-> get_cached_data(city_name, store, now, raises),
                      before |-> KeyState(store, normalize_city(city_name), now)]
        /\ UNCHANGED <<now, lastWrite, req>>

CallCacheData ==
    \E city_name \in CityNames, data \in Payloads, outcome \in StoreOutcomes :
        /\ store' = cache_data(city_name, data, store, now, outcome)
        /\ lastWrite' = WriteRecorded(lastWrite, cache_entry(city_name, data, now),
                                      Applied(outcome))
        /\ lastOp' = [op |-> "cache_data", city |-> Some(city_name), data |-> Some(data),
                      outcome |-> outcome, result |-> None,
                      before |-> KeyState(store, normalize_city(city_name), now)]
        /\ UNCHANGED <<now, req>>

\* clear_cache(city): POST /clear-cache passes request.args.get('city'),
\* clear_cache_tool passes nothing.
CallClearCache ==
    \E city_name \in {None} \cup {Some(c) : c \in CityNames \cup BlankNames},
       outcome \in StoreOutcomes :
        /\ store' = clear_cache(city_name, store, outcome)
        /\ lastWrite' = ClearRecorded(lastWrite, city_name, Applied(outcome))
        /\ lastOp' = [op |-> "clear_cache", city |-> city_name, data |-> None,
                      outcome |-> outcome, result |-> None,
                      before |-> IF Truthy(city_name)
                                 THEN KeyState(store, normalize_city(city_name[1]), now)
                                 ELSE IF store = {} THEN "absent" ELSE "fresh"]
        /\ UNCHANGED <<now, req>>

\* The clock advances.
AdvanceHours == {23, 24, 25}

Tick ==
    \E d \in AdvanceHours :
        /\ now + d <= MaxClock
        /\ now' = now + d
        /\ lastOp' = NoOp
        /\ UNCHANGED <<store, lastWrite, req>>

NextCache == CallGetCachedData \/ CallCacheData \/ CallClearCache \/ Tick

Spec == InitCache /\ [][NextCache]_vars

(***************************************************************************)
(* Documents that db_service did not write: a collection that already      *)
(* holds entries without cached_at when the service connects.              *)
(***************************************************************************)
LegacyDocs ==
    { [city_name |-> normalize_city(c), data |-> d, cached_at |-> None] :
        c \in CityNames, d \in Payloads }

InitLegacy ==
    /\ store \in { st \in SUBSET LegacyDocs :
                     /\ st # {}
                     /\ \A k \in CityKeys : Cardinality(Matching(st, k)) <= 1 }
    /\ now = 0
    /\ lastWrite = NoWrites
    /\ lastOp = NoOp
    /\ req = [t \in Threads |-> IdleRequest]

SpecLegacy == InitLegacy /\ [][NextCache]_vars

(***************************************************************************)
(* Properties of the cache.                                                *)
(***************************************************************************)
\* The key a city name of the model stands for, written out.
ExpectedKey(city_name) ==
    IF city_name \in { <<"P">>, <<" ", "p">> } THEN <<"p">>
    ELSE IF city_name = <<"R", " ">> THEN <<"r">>
    ELSE <<>>

\* What a read of city_name must return, by the history of applied writes.
ExpectedRead(city_name) ==
    LET w == lastWrite[ExpectedKey(city_name)]
    IN  IF w # None /\ now - w[1].at < 24 THEN Some(w[1].data) ELSE None

\* C1: a get_cached_data call that the store answers returns the payload of
\* the most recent applied cache_data for the key exactly when that write was
\* not cleared since and is less than 24 hours old; otherwise it returns None.
C1_ReadReturnsFreshLastWrite ==
    /\ (lastOp.op = "get_cached_data" /\ lastOp.outcome = "ok")
          => lastOp.result = ExpectedRead(lastOp.city[1])
    /\ \A c \in CityNames : get_cached_data(c, store, now, FALSE) = ExpectedRead(c)

\* A read 23 hours after the write returned the payload written.
C1_Witness ==
    /\ lastOp.op = "get_cached_data"
    /\ lastOp.outcome = "ok"
    /\ lastOp.result # None
    /\ lastWrite[ExpectedKey(lastOp.city[1])] # None
    /\ now - lastWrite[ExpectedKey(lastOp.city[1])][1].at = 23
    /\ lastOp.result[1] = lastWrite[ExpectedKey(lastOp.city[1])][1].data

\* C2: a get_cached_data call leaves the collection as it was, whatever it
\* returns (hit, expired, absent, read error).
C2_ReadLeavesStoreUnchanged ==
    [][lastOp'.op = "get_cached_data" => store' = store]_vars

\* A read found the entry expired, and the entry is still stored.
C2_Witness ==
    /\ lastOp.op = "get_cached_data"
    /\ lastOp.outcome = "ok"
    /\ lastOp.result = None
    /\ lastOp.before = "stale"
    /\ Matching(store, ExpectedKey(lastOp.city[1])) # {}

\* C3: after a cache_data call that succeeds the collection holds exactly one
\* document for the lowercased, trimmed city name, with the new payload and
\* cached_at = now, whatever the key's state was before; and the collection
\* never holds two documents of one key.
C3_UpsertOneEntryPerKey ==
    /\ (lastOp.op = "cache_data" /\ lastOp.outcome = "ok")
          => Matching(store, ExpectedKey(lastOp.city[1])) =
                { [city_name |-> ExpectedKey(lastOp.city[1]),
                   data |-> lastOp.data[1], cached_at |-> Some(now)] }
    /\ \A k \in CityKeys : Cardinality(Matching(store, k)) <= 1
    /\ \A doc \in store : doc.city_name \in CityKeys

\* A cache_data call overwrote a stale entry.
C3_Witness ==
    /\ lastOp.op = "cache_data"
    /\ lastOp.outcome = "ok"
    /\ lastOp.before = "stale"
    /\ Cardinality(store) = 2

\* clear_cache was called with no city: None, or a string Python takes as false.
NoCityGiven(city) == city = None \/ city = Some(<<>>)

\* C4: a clear_cache call with no city that succeeds empties the collection,
\* and every read is then a miss until the city is written again; one with a
\* city removes the documents of that key and no other document.
C4_ClearRemovesAllOrOne ==
    /\ [][(lastOp'.op = "clear_cache" /\ lastOp'.outcome = "ok")
            => IF NoCityGiven(lastOp'.city)
               THEN /\ store' = {}
                    /\ \A c \in CityNames : get_cached_data(c, store', now', FALSE) = None
               ELSE store' = {doc \in store : doc.city_name # ExpectedKey(lastOp'.city[1])}
         ]_vars
    /\ [](\A c \in CityNames :
            lastWrite[ExpectedKey(c)] = None => get_cached_data(c, store, now, FALSE) = None)

\* clear_cache of one city removed its entry and left the other city's entry.
C4_Witness ==
    /\ lastOp.op = "clear_cache"
    /\ lastOp.outcome = "ok"
    /\ ~NoCityGiven(lastOp.city)
    /\ lastOp.before # "absent"
    /\ Matching(store, ExpectedKey(lastOp.city[1])) = {}
    /\ store # {}

\* C10: a stored entry without cached_at is returned by every read of its
\* key, at every clock value, as long as it is stored.
C10_NoCachedAtNeverExpires ==
    \A doc \in store :
        doc.cached_at = None =>
            /\ \A c \in CityNames :
                   ExpectedKey(c) = doc.city_name
                      => get_cached_data(c, store, now, FALSE) = Some(doc.data)
            /\ (/\ lastOp.op = "get_cached_data"
                /\ lastOp.outcome = "ok"
                /\ ExpectedKey(lastOp.city[1]) = doc.city_name)
                  => lastOp.result = Some(doc.data)

\* An entry without cached_at was read 48 hours after the start and returned.
C10_Witness ==
    /\ lastOp.op = "get_cached_data"
    /\ lastOp.outcome = "ok"
    /\ lastOp.result # None
    /\ now >= 48
    /\ \E doc \in Matching(store, ExpectedKey(lastOp.city[1])) : doc.cached_at = None

(***************************************************************************)
(* The request handlers of app.py, run by concurrent request threads.      *)
(***************************************************************************)
\* request.args.get('city', '').strip()
request_city(param) == IF param = None THEN <<>> ELSE strip(param[1])

\* Mutant: the error response carries no hotels key.
error_response_short(message) ==
    [success |-> FALSE, error |-> message, attractions |-> <<>>, restaurants |-> <<>>]

\* The error responses of search (400, 404, 500).
error_response(message) ==
    [success |-> FALSE, error |-> message,
     attractions |-> <<>>, hotels |-> <<>>, restaurants |-> <<>>]

\* {'success': True, 'city': city, 'cached': cached, **data}: the keys of data
\* come last and win.
success_response(city, cached, data) ==
    data @@ [success |-> TRUE, city |-> city, cached |-> cached]

\* Mutant: the handler takes every read for a miss.
NeverHit(cached_data) == FALSE

\* Mutant: a payload whose buckets are all empty is taken for a miss.
IsHitWithPlaces(cached_data) ==
    /\ cached_data # None
    /\ \E key \in DOMAIN cached_data[1] : cached_data[1][key] # <<>>

\* if cached_data: (None and the empty dict are false)
IsHit(cached_data) == cached_data # None /\ DOMAIN cached_data[1] # {}

\* place_service.get_coordinates: (lat, lon, display_name), all None when the
\* city is not found or the call fails; a found feature may lack a property.
GeocodeResults ==
    { [lat |-> None, lon |-> None, display_name |-> None],
      [lat |-> Some(0), lon |-> None, display_name |-> None],
      [lat |-> Some(0), lon |-> Some(2), display_name |-> Some(<<"P", "p">>)] }

\* Mutant: only the latitude is tested.
has_latitude(geo) == geo.lat # None

\* not (lat is None or lon is None)
has_coordinates(geo) == ~(geo.lat = None \/ geo.lon = None)

\* display_name or city
display_or_city(geo, city) ==
    IF geo.display_name # None /\ geo.display_name[1] # <<>>
    THEN geo.display_name[1] ELSE city

\* category[:-1] if category.endswith('s') else category
singular(category) ==
    IF category = "attractions" THEN "attraction"
    ELSE IF category = "hotels" THEN "hotel"
    ELSE IF category = "restaurants" THEN "restaurant"
    ELSE category

\* place.get(key, default)
get_or(opt, default_value) == IF opt = None THEN default_value ELSE opt[1]

\* if not place.get('name'): (None and '' are false)
has_name(place) == place.name # None /\ place.name[1] # <<>>

\* Mutant: price and insight are computed from the rating that is shown.
enrich_place_shown_rating(place, category, choice) ==
    [name |-> place.name[1],
     category |-> singular(category),
     rating |-> generate_rating(place.name[1]),
     price_range |-> estimate_price_range(place.name[1], get_or(place.kinds, <<>>),
                                          generate_rating(place.name[1])),
     ai_insight |-> generate_insight(place.name[1], category, get_or(place.kinds, <<>>),
                                     generate_rating(place.name[1]), choice),
     distance |-> get_or(place.distance, 0),
     lat |-> place.lat,
     lon |-> place.lon]

\* format_place_data, lines 57-84: the formatted_place dict of one raw place.
enrich_place(place, category, choice) ==
    [name |-> place.name[1],
     category |-> singular(category),
     rating |-> generate_rating(place.name[1]),
     price_range |-> estimate_price_range(place.name[1], get_or(place.kinds, <<>>),
                                          get_or(place.rating, 0)),
     ai_insight |-> generate_insight(place.name[1], category, get_or(place.kinds, <<>>),
                                     get_or(place.rating, 0), choice),
     distance |-> get_or(place.distance, 0),
     lat |-> place.lat,
     lon |-> place.lon]

\* format_place_data, lines 50-86: places without a name are skipped.
\* choices[name] is the index random.choice yields for the place of that name.
RECURSIVE formatted(_, _, _)
formatted(raw_places, category, choices) ==
    IF raw_places = <<>> THEN <<>>
    ELSE IF ~has_name(Head(raw_places)) THEN formatted(Tail(raw_places), category, choices)
    ELSE <<enrich_place(Head(raw_places), category, choices[Head(raw_places).name[1]])>>
         \o formatted(Tail(raw_places), category, choices)

\* format_place_data
format_place_data(raw_places, category, choices) ==
    rank_places(formatted(raw_places, category, choices))

\* A place as fetch_places_from_geoapify builds it: it has a name, and its
\* rating is 0.
geoapify_place(name, kinds) ==
    [name |-> Some(name), kinds |-> Some(kinds), rating |-> Some(0),
     distance |-> Some(1), lat |-> Some(0), lon |-> Some(2)]

\* What get_attractions / get_hotels / get_restaurants return: a list of
\* places, empty when the call fails.
RawPlaces == { <<>>, <<geoapify_place(<<"F", "o", "r", "t">>, <<"t", "o", "u", "r", "i", "s", "m">>)>> }

\* The indexes random.choice yields in the searches.
SearchChoices == { [n \in PlaceNames |-> 0] }

\* The three fetches of one search.
Fetches ==
    { [attractions |-> a, hotels |-> h, restaurants |-> a] : a \in RawPlaces, h \in {<<>>} }

\* Does an exception raised inside get_cached_data / cache_data reach the
\* caller? Both catch Exception and return.
get_cached_data_propagates(raises) == FALSE

\* Mutant: cache_data re-raises what the store raised.
cache_data_reraises(outcome) == Raised(outcome)

cache_data_propagates(outcome) == FALSE

\* The city parameters of the searches: "P" and "R ".
SearchNames == { <<"P">>, <<"R", " ">> }

\* The clock steps between the steps of the requests.
SearchAdvanceHours == {24}

Finish(r, status, body) == [r EXCEPT !.pc = "done", !.status = status, !.body = Some(body)]

\* search, lines 117-128: the city parameter is read and validated.
SearchStart(t) ==
    \E param \in {None} \cup {Some(c) : c \in SearchNames \cup BlankNames} :
        /\ req[t].pc = "idle"
        /\ LET r == [req[t] EXCEPT !.param = param]
           IN  req' = [req EXCEPT ![t] =
                   IF request_city(param) = <<>>
                   THEN Finish(r, 400, error_response("city required"))
                   ELSE [r EXCEPT !.pc = "check_cache"]]
        /\ UNCHANGED <<store, now, lastWrite, lastOp>>

\* search, lines 134-142: the cache is read; a hit is answered at once.
SearchCheckCache(t) ==
    \E raises \in BOOLEAN :
        /\ req[t].pc = "check_cache"
        /\ LET city == request_city(req[t].param)
               cached_data == get_cached_data(city, store, now, raises)
               r == [req[t] EXCEPT !.read = cached_data,
                                   !.calls = @ \cup {"cache_read"},
                                   !.raised = IF raises THEN @ \cup {"read"} ELSE @]
           IN  req' = [req EXCEPT ![t] =
                   IF get_cached_data_propagates(raises)
                   THEN Finish(r, 500, error_response("internal server error"))
                   ELSE IF IsHit(cached_data)
                   THEN Finish(r, 200, success_response(city, TRUE, cached_data[1]))
                   ELSE [r EXCEPT !.pc = "geocode"]]
        /\ store' = StoreAfterRead(request_city(req[t].param), store, now)
        /\ UNCHANGED <<now, lastWrite, lastOp>>

\* search, lines 144-154: geocoding; no coordinates is a 404.
SearchGeocode(t) ==
    \E geo \in GeocodeResults :
        /\ req[t].pc = "geocode"
        /\ LET r == [req[t] EXCEPT !.geo = Some(geo), !.calls = @ \cup {"geocode"}]
           IN  req' = [req EXCEPT ![t] =
                   IF has_coordinates(geo)
                   THEN [r EXCEPT !.pc = "fetch"]
                   ELSE Finish(r, 404, error_response("no coordinates"))]
        /\ UNCHANGED <<store, now, lastWrite, lastOp>>

\* search, lines 156-177 and 195-203: the three fetches and their formatting;
\* an exception raised there is answered with a 500. Line 93 of cache_data:
\* the cache entry is built with the current time.
SearchFetchAndFormat(t) ==
    \E f \in Fetches, choices \in SearchChoices, exception \in BOOLEAN :
        /\ req[t].pc = "fetch"
        /\ LET r == [req[t] EXCEPT !.calls = @ \cup {"fetch"}]
               data == response_data(format_place_data(f.attractions, "attractions", choices),
                                     format_place_data(f.hotels, "hotels", choices),
                                     format_place_data(f.restaurants, "restaurants", choices))
           IN  req' = [req EXCEPT ![t] =
                   IF exception
                   THEN Finish([r EXCEPT !.raised = @ \cup {"enrich"}], 500,
                               error_response("error while fetching"))
                   ELSE [r EXCEPT !.pc = "cache_write",
                                  !.entry = Some(cache_entry(request_city(r.param), data, now))]]
        /\ UNCHANGED <<store, now, lastWrite, lastOp>>

\* The response of a search after cache_data returned or raised.
AfterCacheData(r, outcome) ==
    LET w == [r EXCEPT !.raised = IF Raised(outcome) THEN @ \cup {"write"} ELSE @]
    IN  IF cache_data_propagates(outcome)
        THEN Finish(w, 500, error_response("error while fetching"))
        ELSE Finish(w, 200,
                    success_response(display_or_city(w.geo[1], request_city(w.param)),
                                     FALSE, w.entry[1].data))

\* search, line 180 (and 188-193 when the call is over): update_one with
\* upsert=True reaches the server. A matching document is updated at once;
\* with no match the server goes on to insert, which is a later step.
SearchCacheData(t) ==
    \E outcome \in StoreOutcomes :
        /\ req[t].pc = "cache_write"
        /\ LET entry == req[t].entry[1]
               r == [req[t] EXCEPT !.calls = @ \cup {"cache_write"}]
           IN  IF ~Applied(outcome)
               THEN /\ req' = [req EXCEPT ![t] = AfterCacheData(r, outcome)]
                    /\ UNCHANGED <<store, lastWrite>>
               ELSE IF Matching(store, entry.city_name) # {}
               THEN /\ store' = UpdateMatched(store, entry)
                    /\ lastWrite' = WriteRecorded(lastWrite, entry, TRUE)
                    /\ req' = [req EXCEPT ![t] = AfterCacheData(r, outcome)]
               ELSE /\ req' = [req EXCEPT ![t] = [r EXCEPT !.pc = "upsert_insert"]]
                    /\ UNCHANGED <<store, lastWrite>>
        /\ UNCHANGED <<now, lastOp>>

\* The insert of an upsert that found no match. The unique index on
\* city_name rejects it when another writer inserted the key meanwhile: the
\* server then raises DuplicateKeyError or retries the upsert as an update.
SearchUpsertInsert(t) ==
    \E outcome \in {"ok", "raise_applied"}, retry \in BOOLEAN :
        /\ req[t].pc = "upsert_insert"
        /\ LET entry == req[t].entry[1]
           IN  IF UniqueIndexAllows(store, entry)
               THEN /\ store' = store \cup {entry}
                    /\ lastWrite' = WriteRecorded(lastWrite, entry, TRUE)
                    /\ req' = [req EXCEPT ![t] = AfterCacheData(req[t], outcome)]
               ELSE IF retry
               THEN /\ store' = UpdateMatched(store, entry)
                    /\ lastWrite' = WriteRecorded(lastWrite, entry, TRUE)
                    /\ req' = [req EXCEPT ![t] = AfterCacheData(req[t], outcome)]
               ELSE /\ req' = [req EXCEPT ![t] = AfterCacheData(req[t], "raise_unapplied")]
                    /\ UNCHANGED <<store, lastWrite>>
        /\ UNCHANGED <<now, lastOp>>

\* The response is sent; the thread is free for the next request.
SearchReturn(t) ==
    /\ req[t].pc = "done"
    /\ req' = [req EXCEPT ![t] = IdleRequest]
    /\ UNCHANGED <<store, now, lastWrite, lastOp>>

\* POST /clear-cache, and clear_cache_tool (no city).
HandleClearCache ==
    \E city \in {None} \cup {Some(c) : c \in CityNames \cup BlankNames},
       outcome \in StoreOutcomes :
        /\ store' = clear_cache(city, store, outcome)
        /\ lastWrite' = ClearRecorded(lastWrite, city, Applied(outcome))
        /\ UNCHANGED <<now, lastOp, req>>

TickSearch ==
    \E d \in SearchAdvanceHours :
        /\ now + d <= MaxClockSearch
        /\ now' = now + d
        /\ UNCHANGED <<store, lastWrite, lastOp, req>>

NextSearch ==
    \/ \E t \in Threads :
          \/ SearchStart(t)
          \/ SearchCheckCache(t)
          \/ SearchGeocode(t)
          \/ SearchFetchAndFormat(t)
          \/ SearchCacheData(t)
          \/ SearchUpsertInsert(t)
          \/ SearchReturn(t)
    \/ HandleClearCache
    \/ TickSearch

SpecSearch == InitCache /\ [][NextSearch]_vars

(***************************************************************************)
(* Properties of the search handler.                                       *)
(***************************************************************************)
Collaborators == {"geocode", "fetch", "cache_write"}

BucketKeys == {"attractions", "hotels", "restaurants"}

SuccessKeys == {"success", "city", "cached"} \cup BucketKeys

Done(t) == req[t].pc = "done"

EmptyBuckets(body) ==
    body.attractions = <<>> /\ body.hotels = <<>> /\ body.restaurants = <<>>

\* The request's geocoding returned a latitude and a longitude.
GotCoordinates(r) == r.geo # None /\ r.geo[1].lat # None /\ r.geo[1].lon # None

\* C5: the cache is read before any collaborator is called; a hit is answered
\* with the stored payload and cached=true, with no geocoding, fetch or cache
\* write; the cache is written only by a request whose read missed, whose
\* geocoding gave coordinates and whose enrichment completed, and that
\* request answers cached=false.
C5_ReadThroughWriteOnMiss ==
    /\ [](\A t \in Threads :
            LET r == req[t]
            IN  /\ (r.calls \cap Collaborators # {}) => "cache_read" \in r.calls
                /\ (r.read # None)
                      => /\ Done(t)
                         /\ r.status = 200
                         /\ r.calls = {"cache_read"}
                         /\ r.body[1].cached = TRUE
                         /\ [k \in BucketKeys |-> r.body[1][k]] = r.read[1]
                /\ ("cache_write" \in r.calls \/ r.pc = "cache_write")
                      => /\ r.read = None
                         /\ GotCoordinates(r)
                         /\ "fetch" \in r.calls
                         /\ "enrich" \notin r.raised
                         /\ Done(t) => (r.status = 200 /\ r.body[1].cached = FALSE))
    /\ [][\A doc \in store' \ store :
            \E t \in Threads :
                /\ req[t].pc \in {"cache_write", "upsert_insert"}
                /\ "cache_write" \in req'[t].calls
                /\ req'[t].entry = Some(doc)
                /\ req'[t].read = None
                /\ GotCoordinates(req'[t])
                /\ "enrich" \notin req'[t].raised]_vars

\* A search hit an entry that another search had written.
C5_Witness ==
    \E t \in Threads :
        /\ Done(t)
        /\ req[t].read # None
        /\ req[t].body[1].cached = TRUE
        /\ req[t].body[1].attractions # <<>>

\* C6: a store failure never fails a search: a read that raised is handled as
\* a miss, a write that raised still gives the success response with the
\* computed buckets, and every error response has a cause other than the store.
C6_StoreFailureIsolated ==
    \A t \in Threads :
        LET r == req[t]
        IN  /\ ("read" \in r.raised)
                  => /\ r.read = None
                     /\ r.pc = "geocode" \/ "geocode" \in r.calls
            /\ ("write" \in r.raised)
                  => /\ Done(t)
                     /\ r.status = 200
                     /\ r.body[1].success = TRUE
                     /\ [k \in BucketKeys |-> r.body[1][k]] = r.entry[1].data
            /\ (Done(t) /\ r.status # 200)
                  => \/ r.status = 400 /\ r.calls = {}
                     \/ r.status = 404 /\ ~GotCoordinates(r)
                     \/ r.status = 500 /\ "enrich" \in r.raised

\* A search whose cache read and cache write both raised answered 200.
C6_Witness ==
    \E t \in Threads :
        /\ Done(t)
        /\ req[t].raised = {"read", "write"}
        /\ req[t].status = 200
        /\ req[t].body[1].attractions # <<>>

\* C7 as claimed: every failure response of search has the keys of a success
\* response, with the three buckets empty.
C7_FailureHasSuccessKeys ==
    \A t \in Threads :
        (Done(t) /\ req[t].status \in {400, 404, 500})
            => /\ DOMAIN req[t].body[1] = SuccessKeys
               /\ EmptyBuckets(req[t].body[1])

\* C7 amended: every failure response of search has success=false, an error
\* message and the three buckets as empty arrays, and no other key (it has no
\* city and no cached key); every success response has exactly the keys
\* success, city, cached and the three buckets.
C7_FailureShape ==
    \A t \in Threads :
        Done(t) =>
            IF req[t].status \in {400, 404, 500}
            THEN /\ DOMAIN req[t].body[1] = {"success", "error"} \cup BucketKeys
                 /\ req[t].body[1].success = FALSE
                 /\ EmptyBuckets(req[t].body[1])
            ELSE /\ req[t].status = 200
                 /\ DOMAIN req[t].body[1] = SuccessKeys
                 /\ req[t].body[1].success = TRUE

\* The two threads hold a 500 response and a 404 response.
C7_Witness ==
    \E t, u \in Threads :
        /\ Done(t) /\ req[t].status = 500
        /\ Done(u) /\ req[u].status = 404

\* C8: a missing, empty or blank city is answered 400 with no cache read and
\* no collaborator call; a miss whose geocoding lacks latitude or longitude is
\* answered 404 with no fetch and no cache write; an exception while fetching
\* or enriching is answered 500 with empty arrays and no cache write.
C8_ErrorPaths ==
    \A t \in Threads :
        LET r == req[t]
        IN  /\ (r.pc # "idle" /\ (r.param = None \/ r.param[1] \in { <<>>, <<" ">> }))
                  => /\ Done(t)
                     /\ r.status = 400
                     /\ r.calls = {}
            /\ (r.geo # None /\ (r.geo[1].lat = None \/ r.geo[1].lon = None))
                  => /\ Done(t)
                     /\ r.status = 404
                     /\ r.calls = {"cache_read", "geocode"}
                     /\ r.entry = None
            /\ ("enrich" \in r.raised)
                  => /\ Done(t)
                     /\ r.status = 500
                     /\ EmptyBuckets(r.body[1])
                     /\ "cache_write" \notin r.calls
                     /\ r.entry = None

\* Geocoding returned a latitude (0) and no longitude: the answer was 404.
C8_Witness ==
    \E t \in Threads :
        /\ Done(t)
        /\ req[t].status = 404
        /\ req[t].geo[1].lat = Some(0)
        /\ req[t].geo[1].lon = None

AllFinished == \A t \in Threads : req[t].pc \in {"idle", "done"}

\* C9: under every interleaving of the searches the collection holds at most
\* one document per city key, no search fails because of the race, a write to
\* one key leaves the documents of the other keys alone, and once all requests
\* have finished each key holds the payload and timestamp of the upsert
\* applied last for it.
C9_ConcurrentUpserts ==
    /\ [](/\ \A k \in CityKeys : Cardinality(Matching(store, k)) <= 1
          /\ \A t \in Threads : (Done(t) /\ req[t].status = 500) => "enrich" \in req[t].raised
          /\ AllFinished =>
                \A k \in CityKeys :
                    Matching(store, k) =
                        IF lastWrite[k] = None THEN {}
                        ELSE { [city_name |-> k, data |-> lastWrite[k][1].data,
                                cached_at |-> Some(lastWrite[k][1].at)] })
    /\ [][\A k \in CityKeys :
            lastWrite'[k] = lastWrite[k] => Matching(store', k) = Matching(store, k)]_vars

\* Two searches of one city both missed at time 0, both wrote, with different
\* payloads, and one entry is stored.
C9_Witness ==
    /\ now = 0
    /\ \A t \in Threads :
          /\ Done(t)
          /\ req[t].status = 200
          /\ "cache_write" \in req[t].calls
          /\ req[t].raised = {}
    /\ req[1].entry[1].city_name = req[2].entry[1].city_name
    /\ req[1].entry[1].data # req[2].entry[1].data
    /\ Cardinality(store) = 1

(***************************************************************************)
(* The enrichment functions called on their own: AIService's static        *)
(* methods and format_place_data. A call records its arguments and its     *)
(* result in lastOp. generate_rating may be called at any time; the other  *)
(* calls start when no call is recorded.                                   *)
(***************************************************************************)
NoCall == lastOp.op = "none"

CallGenerateRating ==
    \E name \in PlaceNames :
        /\ lastOp' = [op |-> "generate_rating", args |-> [name |-> name],
                      result |-> generate_rating(name)]
        /\ UNCHANGED <<store, now, lastWrite, req>>

\* The category tags ('kinds') of the calls.
KindsInputs ==
    { <<>>,
      <<"t", "o", "u", "r", "i", "s", "m">>,
      <<"h", "o", "s", "t", "e", "l", ",", "b", "u", "d", "g", "e", "t">>,
      <<"c", "a", "s", "u", "a", "l">>,
      <<"l", "u", "x", "u", "r", "y", ",", "h", "e", "r", "i", "t", "a", "g", "e">>,
      <<"h", "e", "r", "i", "t", "a", "g", "e">>,
      <<"s", "t", "r", "e", "e", "t", " ", "f", "o", "o", "d", ",", "c", "a", "f", "e">>,
      <<"h", "i", "s", "t", "o", "r", "i", "c", ",", "p", "a", "r", "k">>,
      <<"T", "e", "m", "p", "l", "e", ",", "Z", "o", "o">>,
      <<"p", "a", "r", "k", ",", "z", "o", "o">>,
      <<"C", "i", "n", "e", "m", "a">> }

\* The ratings of the calls, in tenths: 0 and both sides of 4.0 and of 4.5.
RatingInputs == {0, 39, 40, 44, 45, 50}

CallEstimatePriceRange ==
    \E name \in PlaceNames, kinds \in KindsInputs, rating \in RatingInputs :
        /\ NoCall
        /\ lastOp' = [op |-> "estimate_price_range",
                      args |-> [name |-> name, kinds |-> kinds, rating |-> rating],
                      result |-> estimate_price_range(name, kinds, rating)]
        /\ UNCHANGED <<store, now, lastWrite, req>>

CallCategorizeAttractionType ==
    \E kinds \in KindsInputs :
        /\ NoCall
        /\ lastOp' = [op |-> "categorize_attraction_type", args |-> [kinds |-> kinds],
                      result |-> categorize_attraction_type(kinds)]
        /\ UNCHANGED <<store, now, lastWrite, req>>

CallCategorizeHotelType ==
    \E name \in PlaceNames, kinds \in KindsInputs :
        /\ NoCall
        /\ lastOp' = [op |-> "categorize_hotel_type", args |-> [name |-> name, kinds |-> kinds],
                      result |-> categorize_hotel_type(name, kinds)]
        /\ UNCHANGED <<store, now, lastWrite, req>>

CallCategorizeRestaurantType ==
    \E name \in PlaceNames, kinds \in KindsInputs :
        /\ NoCall
        /\ lastOp' = [op |-> "categorize_restaurant_type",
                      args |-> [name |-> name, kinds |-> kinds],
                      result |-> categorize_restaurant_type(name, kinds)]
        /\ UNCHANGED <<store, now, lastWrite, req>>

\* The longest list of places handed to rank_places.
MaxPlaces == 3

\* The places of the lists: equal ratings with and without a review count,
\* equal (rating, review_count) keys, and a place without a rating.
RankInputs ==
    { [name |-> <<"F", "o", "r", "t">>, rating |-> 45, review_count |-> None],
      [name |-> <<"B", "u", "d", "g", "e", "t", " ", "I", "n", "n">>, rating |-> 45,
       review_count |-> Some(0)],
      [name |-> <<"C", "a", "f", "e", " ", "B", "i", "s", "t", "r", "o">>, rating |-> 45,
       review_count |-> Some(7)],
      [name |-> <<"S", "p", "a">>, rating |-> 50, review_count |-> None],
      [name |-> <<"D", "h", "a", "b", "a">>, rating |-> 35, review_count |-> Some(7)],
      [name |-> <<"T", "a", "j", " ", "M", "a", "h", "a", "l", " ", "P", "a", "l", "a", "c", "e", " ", "H", "o", "t", "e", "l">>,
       review_count |-> None] }

PlaceLists == UNION { [1..n -> RankInputs] : n \in 0..MaxPlaces }

CallRankPlaces ==
    \E places \in PlaceLists :
        /\ NoCall
        /\ lastOp' = [op |-> "rank_places", args |-> [places |-> places],
                      result |-> rank_places(places)]
        /\ UNCHANGED <<store, now, lastWrite, req>>

\* The place kinds of the calls: the three known ones and another.
CategoryInputs == {"attractions", "hotels", "restaurants", "museums"}

CallGenerateInsight ==
    \E name \in PlaceNames, category \in CategoryInputs, kinds \in KindsInputs,
       rating \in RatingInputs, choice \in ChoiceIndexes :
        /\ NoCall
        /\ lastOp' = [op |-> "generate_insight",
                      args |-> [name |-> name, category |-> category, kinds |-> kinds,
                                rating |-> rating],
                      choice |-> choice,
                      result |-> generate_insight(name, category, kinds, rating, choice)]
        /\ UNCHANGED <<store, now, lastWrite, req>>

\* The longest list of raw places handed to format_place_data.
MaxRaw == 2

\* Raw places: two as the places collaborator builds them (rating 0), one
\* with a rating of its own, one with only a name, and two without a name.
RawInputs ==
    { geoapify_place(<<"F", "o", "r", "t">>, <<"t", "o", "u", "r", "i", "s", "m">>),
      geoapify_place(<<"S", "p", "a">>, <<>>),
      [name |-> Some(<<"D", "h", "a", "b", "a">>), kinds |-> Some(<<"c", "a", "s", "u", "a", "l">>),
       rating |-> Some(48), distance |-> Some(3), lat |-> Some(0), lon |-> Some(2)],
      [name |-> Some(<<"F", "o", "r", "t">>), kinds |-> None, rating |-> None,
       distance |-> None, lat |-> None, lon |-> None],
      [name |-> None, kinds |-> Some(<<"t", "o", "u", "r", "i", "s", "m">>), rating |-> Some(0),
       distance |-> Some(1), lat |-> Some(0), lon |-> Some(2)],
      [name |-> Some(<<>>), kinds |-> Some(<<>>), rating |-> Some(0),
       distance |-> Some(1), lat |-> Some(0), lon |-> Some(2)] }

RawLists == UNION { [1..n -> RawInputs] : n \in 0..MaxRaw }

\* The indexes random.choice yields during one call: the same for each name.
FormatChoices == { [n \in PlaceNames |-> choice] : choice \in ChoiceIndexes }

CallFormatPlaceData ==
    \E raw_places \in RawLists, category \in CategoryInputs, choices \in FormatChoices :
        /\ NoCall
        /\ lastOp' = [op |-> "format_place_data",
                      args |-> [raw_places |-> raw_places, category |-> category],
                      result |-> format_place_data(raw_places, category, choices)]
        /\ UNCHANGED <<store, now, lastWrite, req>>

\* The recorded call is over.
Return ==
    /\ ~NoCall
    /\ lastOp' = NoOp
    /\ UNCHANGED <<store, now, lastWrite, req>>

NextEnrich ==
    \/ CallGenerateRating
    \/ CallEstimatePriceRange
    \/ CallCategorizeAttractionType
    \/ CallCategorizeHotelType
    \/ CallCategorizeRestaurantType
    \/ CallRankPlaces
    \/ CallGenerateInsight
    \/ CallFormatPlaceData
    \/ Return

SpecEnrich == InitCache /\ [][NextEnrich]_vars

(***************************************************************************)
(* C11  generate_rating(name) is 3.5 + (H(name) mod 16)/10 for the md5     *)
(* hash H: a call returns 35 tenths plus the value of the last hexadecimal *)
(* digit of the digest, which is in 35..50, and a call that follows a call *)
(* for the same name returns the same value.                               *)
(***************************************************************************)
LastDigit(hexdigest) == hex_value(hexdigest[Len(hexdigest)])

RatingCall(op) == op.op = "generate_rating"

C11_RatingIsHashOfName ==
    [][RatingCall(lastOp') =>
          /\ lastOp'.result = 35 + LastDigit(md5_hexdigest(lastOp'.args.name))
          /\ lastOp'.result \in 35..50
          /\ (RatingCall(lastOp) /\ lastOp.args = lastOp'.args
                 => lastOp'.result = lastOp.result)]_vars

\* A call for "Spa" returned 5.0.
C11_Witness ==
    /\ RatingCall(lastOp)
    /\ lastOp.args.name = <<"S", "p", "a">>
    /\ lastOp.result = 50

(***************************************************************************)
(* C12  estimate_price_range returns one of the three price symbols, by    *)
(* the first match of: a luxury keyword in the lowercased name + ' ' +     *)
(* tags gives the highest tier, else a budget keyword the lowest, else a   *)
(* moderate keyword the middle one, else the rating decides (>= 4.5        *)
(* highest, >= 4.0 middle, lowest below).                                  *)
(***************************************************************************)
\* Some keyword of the list occurs in the text at some position.
Occurs(keywords, text) ==
    \E k \in 1..Len(keywords) :
        \E i \in 1..Len(text) :
            /\ i + Len(keywords[k]) - 1 <= Len(text)
            /\ \A j \in 1..Len(keywords[k]) : text[i + j - 1] = keywords[k][j]

PriceText(args) == lower(args.name \o <<" ">> \o args.kinds)

PriceCall == lastOp.op = "estimate_price_range"

C12_PricePrecedence ==
    PriceCall =>
        LET text == PriceText(lastOp.args)
            rating == lastOp.args.rating
        IN  /\ lastOp.result \in {PRICE_LOW, PRICE_MID, PRICE_HIGH}
            /\ lastOp.result =
                 IF Occurs(LUXURY_KEYWORDS, text) THEN PRICE_HIGH
                 ELSE IF Occurs(BUDGET_KEYWORDS, text) THEN PRICE_LOW
                 ELSE IF Occurs(MODERATE_KEYWORDS, text) THEN PRICE_MID
                 ELSE IF rating >= 45 THEN PRICE_HIGH
                 ELSE IF rating >= 40 THEN PRICE_MID
                 ELSE PRICE_LOW

\* A text with a luxury, a budget and no other help from the rating: the
\* call for 'Taj Mahal Palace Hotel' tagged 'hostel,budget' rated 0 answered
\* with the highest tier.
C12_Witness ==
    /\ PriceCall
    /\ Occurs(LUXURY_KEYWORDS, PriceText(lastOp.args))
    /\ Occurs(BUDGET_KEYWORDS, PriceText(lastOp.args))
    /\ lastOp.args.rating = 0
    /\ lastOp.result = PRICE_HIGH

(***************************************************************************)
(* C13  Each classifier walks its ordered rule list (attraction: historic, *)
(* nature, religious, entertainment; hotel: luxury, boutique, budget;      *)
(* restaurant: fine_dining, street_food, casual) and returns the label of  *)
(* the earliest rule with a keyword occurring in the lowercased text,      *)
(* 'default' when there is none; the label is one of the kind's labels.    *)
(***************************************************************************)
Labels(rules) == [i \in 1..Len(rules) |-> rules[i].label]

\* The rules with a keyword occurring in the text.
MatchingRules(rules, text) == {i \in 1..Len(rules) : Occurs(rules[i].keywords, text)}

EarliestLabel(rules, text) ==
    IF MatchingRules(rules, text) = {} THEN "default"
    ELSE rules[CHOOSE i \in MatchingRules(rules, text) :
                   \A j \in MatchingRules(rules, text) : i <= j].label

LabelSet(rules) == {rules[i].label : i \in 1..Len(rules)} \cup {"default"}

ClassifierCalls ==
    {"categorize_attraction_type", "categorize_hotel_type", "categorize_restaurant_type"}

\* The rule list and the text a recorded classifier call works on.
RulesOf(op) ==
    IF op.op = "categorize_attraction_type" THEN ATTRACTION_RULES
    ELSE IF op.op = "categorize_hotel_type" THEN HOTEL_RULES
    ELSE RESTAURANT_RULES

TextOf(op) ==
    IF op.op = "categorize_attraction_type" THEN lower(op.args.kinds)
    ELSE lower(op.args.name \o <<" ">> \o op.args.kinds)

C13_FirstRuleWins ==
    /\ Labels(ATTRACTION_RULES) = <<"historic", "nature", "religious", "entertainment">>
    /\ Labels(HOTEL_RULES) = <<"luxury", "boutique", "budget">>
    /\ Labels(RESTAURANT_RULES) = <<"fine_dining", "street_food", "casual">>
    /\ lastOp.op \in ClassifierCalls =>
          /\ lastOp.result = EarliestLabel(RulesOf(lastOp), TextOf(lastOp))
          /\ lastOp.result \in LabelSet(RulesOf(lastOp))

\* The hotel 'Taj Mahal Palace Hotel' tagged 'luxury,heritage' matches the
\* luxury and the boutique rule and was classified 'luxury'.
C13_Witness ==
    /\ lastOp.op = "categorize_hotel_type"
    /\ lastOp.args.name = <<"T", "a", "j", " ", "M", "a", "h", "a", "l", " ", "P", "a", "l", "a", "c", "e", " ", "H", "o", "t", "e", "l">>
    /\ lastOp.args.kinds = <<"l", "u", "x", "u", "r", "y", ",", "h", "e", "r", "i", "t", "a", "g", "e">>
    /\ MatchingRules(HOTEL_RULES, TextOf(lastOp)) = {1, 2}
    /\ lastOp.result = "luxury"

(***************************************************************************)
(* C14  rank_places returns a permutation of its input in which ratings    *)
(* do not increase from first to last, and places with equal (rating,      *)
(* review_count or 0) keys keep the relative order they have in the input. *)
(***************************************************************************)
RatingOr0(place) == IF "rating" \in DOMAIN place THEN place.rating ELSE 0

ReviewsOr0(place) ==
    IF "review_count" \in DOMAIN place /\ place.review_count # <<>>
    THEN place.review_count[1] ELSE 0

SortKey(place) == <<RatingOr0(place), ReviewsOr0(place)>>

Elements(seq) == {seq[i] : i \in 1..Len(seq)}

Count(seq, x) == Cardinality({i \in 1..Len(seq) : seq[i] = x})

\* The places of seq that have the key, in the order of seq.
WithKey(seq, key) ==
    LET HasKey(x) == SortKey(x) = key
    IN  SelectSeq(seq, HasKey)

IsPermutation(places, ranked) ==
    /\ Len(ranked) = Len(places)
    /\ \A x \in Elements(places) \cup Elements(ranked) : Count(ranked, x) = Count(places, x)

NonIncreasing(ranked) ==
    \A i, j \in 1..Len(ranked) : i < j => RatingOr0(ranked[i]) >= RatingOr0(ranked[j])

StableFor(places, ranked) ==
    \A x \in Elements(places) : WithKey(ranked, SortKey(x)) = WithKey(places, SortKey(x))

RankCall == lastOp.op = "rank_places"

C14_RankStableDescending ==
    RankCall =>
        /\ IsPermutation(lastOp.args.places, lastOp.result)
        /\ NonIncreasing(lastOp.result)
        /\ StableFor(lastOp.args.places, lastOp.result)

\* A list that is not in descending order and holds two different places
\* with equal keys was ranked.
C14_Witness ==
    /\ RankCall
    /\ lastOp.result # lastOp.args.places
    /\ \E i, j \in 1..Len(lastOp.args.places) :
          /\ i < j
          /\ lastOp.args.places[i] # lastOp.args.places[j]
          /\ SortKey(lastOp.args.places[i]) = SortKey(lastOp.args.places[j])

(***************************************************************************)
(* C15  For a known place kind generate_insight returns one of the three   *)
(* templates of the pool of the classifier's label (always a key of the    *)
(* kind's table), followed by ' Highly rated by visitors!' when rating >=  *)
(* 4.5, by ' Well-loved by travelers.' when 4.0 <= rating < 4.5, and by    *)
(* nothing below 4.0; for any other kind it returns 'A great place to      *)
(* visit and explore.' alone.                                              *)
(***************************************************************************)
KnownKinds == {"attractions", "hotels", "restaurants"}

RulesOfKind(category) ==
    IF category = "attractions" THEN ATTRACTION_RULES
    ELSE IF category = "hotels" THEN HOTEL_RULES
    ELSE RESTAURANT_RULES

PoolsOfKind(category) ==
    IF category = "attractions" THEN ATTRACTION_INSIGHTS
    ELSE IF category = "hotels" THEN HOTEL_INSIGHTS
    ELSE RESTAURANT_INSIGHTS

\* The text the classifier of the kind works on.
TextOfKind(category, name, kinds) ==
    IF category = "attractions" THEN lower(kinds) ELSE lower(name \o <<" ">> \o kinds)

LabelOfCall(args) ==
    EarliestLabel(RulesOfKind(args.category), TextOfKind(args.category, args.name, args.kinds))

ExpectedSuffix(rating) ==
    IF rating >= 45 THEN <<" Highly rated by visitors!">>
    ELSE IF rating >= 40 /\ rating < 45 THEN <<" Well-loved by travelers.">>
    ELSE <<>>

InsightCall == lastOp.op = "generate_insight"

C15_InsightFromLabelPool ==
    /\ \A category \in KnownKinds :
          /\ LabelSet(RulesOfKind(category)) \subseteq DOMAIN PoolsOfKind(category)
          /\ \A label \in DOMAIN PoolsOfKind(category) : Len(PoolsOfKind(category)[label]) = 3
    /\ InsightCall =>
          IF lastOp.args.category \in KnownKinds
          THEN LET pool == PoolsOfKind(lastOp.args.category)[LabelOfCall(lastOp.args)]
               IN  /\ lastOp.result # <<>>
                   /\ Head(lastOp.result) \in {pool[1], pool[2], pool[3]}
                   /\ Tail(lastOp.result) = ExpectedSuffix(lastOp.args.rating)
          ELSE lastOp.result = <<"A great place to visit and explore.">>

\* A hotel of the luxury pool rated exactly 4.5 got the pool's third
\* template and the 'Highly rated' suffix.
C15_Witness ==
    /\ InsightCall
    /\ lastOp.args.category = "hotels"
    /\ LabelOfCall(lastOp.args) = "luxury"
    /\ lastOp.args.rating = 45
    /\ lastOp.result = <<HOTEL_INSIGHTS["luxury"][3], " Highly rated by visitors!">>

(***************************************************************************)
(* C16  format_place_data gives price estimation and insight generation    *)
(* the raw place's own rating (0 when absent), not the generate_rating     *)
(* value it emits: an enriched place built from a raw place rated 0, as    *)
(* the places collaborator returns them, has an insight without suffix     *)
(* and, when its text has no price keyword, the lowest tier, whatever      *)
(* rating (3.5 to 5.0) is shown for it.                                    *)
(***************************************************************************)
Named(raw) == raw.name # <<>> /\ raw.name[1] # <<>>

OwnRating(raw) == IF raw.rating = <<>> THEN 0 ELSE raw.rating[1]

OwnKinds(raw) == IF raw.kinds = <<>> THEN <<>> ELSE raw.kinds[1]

NoPriceKeyword(text) ==
    /\ ~Occurs(LUXURY_KEYWORDS, text)
    /\ ~Occurs(BUDGET_KEYWORDS, text)
    /\ ~Occurs(MODERATE_KEYWORDS, text)

\* place is what the call makes of the raw place.
BuiltFrom(place, raw, category) ==
    /\ place.name = raw.name[1]
    /\ place.rating = generate_rating(raw.name[1])
    /\ place.rating \in 35..50
    /\ place.price_range = estimate_price_range(raw.name[1], OwnKinds(raw), OwnRating(raw))
    /\ \E choice \in ChoiceIndexes :
          place.ai_insight =
              generate_insight(raw.name[1], category, OwnKinds(raw), OwnRating(raw), choice)
    /\ OwnRating(raw) = 0 =>
          /\ Len(place.ai_insight) = 1
          /\ NoPriceKeyword(lower(raw.name[1] \o <<" ">> \o OwnKinds(raw)))
                => place.price_range = PRICE_LOW

FormatCall == lastOp.op = "format_place_data"

C16_RawRatingDrivesPriceAndInsight ==
    FormatCall =>
        LET raw_places == lastOp.args.raw_places
            named == {i \in 1..Len(raw_places) : Named(raw_places[i])}
        IN  /\ Len(lastOp.result) = Cardinality(named)
            /\ \A k \in 1..Len(lastOp.result) :
                  \E i \in named : BuiltFrom(lastOp.result[k], raw_places[i], lastOp.args.category)
            /\ \A i \in named :
                  \E k \in 1..Len(lastOp.result) :
                      BuiltFrom(lastOp.result[k], raw_places[i], lastOp.args.category)

\* 'Fort' as the places collaborator returns it (rating 0, no price keyword)
\* was formatted: it is shown with rating 4.5, has the lowest tier and an
\* insight without suffix.
C16_Witness ==
    /\ FormatCall
    /\ lastOp.args.category = "attractions"
    /\ lastOp.args.raw_places =
          <<geoapify_place(<<"F", "o", "r", "t">>, <<"t", "o", "u", "r", "i", "s", "m">>)>>
    /\ Len(lastOp.result) = 1
    /\ lastOp.result[1].rating = 45
    /\ lastOp.result[1].price_range = PRICE_LOW
    /\ Len(lastOp.result[1].ai_insight) = 1

(***************************************************************************)
(* One request at a time, with clock steps of 23, 24 and 25 hours between  *)
(* the steps of the requests.                                              *)
(***************************************************************************)
Sequential == {1}

NextSearchSeq ==
    \/ \E t \in Sequential :
          \/ SearchStart(t)
          \/ SearchCheckCache(t)
          \/ SearchGeocode(t)
          \/ SearchFetchAndFormat(t)
          \/ SearchCacheData(t)
          \/ SearchUpsertInsert(t)
          \/ SearchReturn(t)
    \/ HandleClearCache
    \/ Tick

SpecSearchSeq == InitCache /\ [][NextSearchSeq]_vars

(***************************************************************************)
(* C17  A search whose geocoding succeeded and whose fetches gave empty    *)
(* buckets answers 200 with cached=false and those buckets, and writes the *)
(* payload to the cache even when all three buckets are empty; a later     *)
(* search that reads the key while the entry is less than 24 hours old is  *)
(* a hit: it answers the same buckets with cached=true and calls neither   *)
(* geocoding nor the places collaborator.                                  *)
(***************************************************************************)
Buckets(body) ==
    response_data(body.attractions, body.hotels, body.restaurants)

\* The entry a read of the request's key finds in the collection.
EntryRead(r) ==
    {doc \in store : doc.city_name = ExpectedKey(r.param[1])}

C17_EmptyPayloadCachedAndServed ==
    /\ [](\A t \in Threads :
            LET r == req[t]
            IN  /\ (r.pc \in {"cache_write", "upsert_insert"})
                      => /\ GotCoordinates(r)
                         /\ r.entry # None
                /\ (Done(t) /\ r.entry # None /\ r.raised \cap {"enrich"} = {})
                      => /\ r.status = 200
                         /\ r.body[1].cached = FALSE
                         /\ Buckets(r.body[1]) = r.entry[1].data
                         /\ "cache_write" \in r.calls
                /\ (Done(t) /\ r.read # None)
                      => /\ r.status = 200
                         /\ r.body[1].cached = TRUE
                         /\ Buckets(r.body[1]) = r.read[1]
                         /\ r.calls = {"cache_read"})
    /\ [][\A t \in Threads :
            /\ (req[t].pc \in {"cache_write", "upsert_insert"}
                   /\ Done(t)' /\ req'[t].raised = {})
                  => req[t].entry[1] \in store'
            /\ (req[t].pc = "check_cache" /\ req'[t].pc # "check_cache"
                   /\ req'[t].raised = {})
                  => \A doc \in EntryRead(req[t]) :
                        (doc.cached_at # None /\ now - doc.cached_at[1] < 24)
                           => req'[t].read = Some(doc.data)]_vars

\* A search wrote the all-empty payload at hour 0, and a search of the same
\* key 23 hours later was answered from the cache with empty buckets.
C17_Witness ==
    \E t \in Threads :
        /\ Done(t)
        /\ req[t].read = Some(EmptyPayload)
        /\ req[t].body[1].cached = TRUE
        /\ EmptyBuckets(req[t].body[1])
        /\ \E doc \in EntryRead(req[t]) :
              /\ doc.data = EmptyPayload
              /\ doc.cached_at # None
              /\ now - doc.cached_at[1] = 23
        /\ lastWrite[ExpectedKey(req[t].param[1])] # None
====
